---------------------------- MODULE Spec2Model ----------------------------
(***************************************************************************)
(* A model of src/app.py: the Flask order API with its process-wide TTL    *)
(* cache (CACHE, get_from_cache, set_cache, clear_cache), the fetch        *)
(* orchestration load_orders_from_abacus with its mock fallback, and the   *)
(* query routes built on them.  Requests are served by concurrent worker   *)
(* threads (Flask's threaded server); one action is one stretch of a       *)
(* handler between two accesses to shared state that another thread can    *)
(* separate.                                                               *)
(***************************************************************************)
EXTENDS Integers, Sequences, FiniteSets, TLC

(***************************************************************************)
(* Bounds of the model.                                                    *)
(***************************************************************************)
MaxRequests == 3     \* requests started in one run
MaxQueries == 2      \* requests started in one run over every route
MaxCalls == 4        \* direct cache calls started in one run of the cache alone
MaxTicks == 2        \* clock advances in one run

\* The worker threads that serve requests concurrently.
Workers == {1, 2}

(***************************************************************************)
(* Program constants.                                                      *)
(***************************************************************************)
CACHE_DURATION == 120

\* The wall clock advances by half the TTL at a time, so that entries of age
\* 0, 60 (fresh) and 120 (the first stale age) all occur.
TickSteps == {CACHE_DURATION \div 2}

(***************************************************************************)
(* Order records.                                                          *)
(***************************************************************************)
get_mock_orders ==
  << [id |-> "ORD-2025-001", booth_number |-> "A-245",
      exhibitor_name |-> "TechFlow Innovations",
      item |-> "Premium Booth Setup Package",
      description |-> "Complete booth installation with premium furniture, lighting, and tech setup",
      color |-> "White", quantity |-> 1, status |-> "out-for-delivery",
      order_date |-> "June 14, 2025", comments |-> "Rush delivery requested",
      section |-> "Section A"],
     [id |-> "ORD-2025-002", booth_number |-> "A-245",
      exhibitor_name |-> "TechFlow Innovations",
      item |-> "Interactive Display System",
      description |-> "75\" 4K touchscreen display with interactive software and mounting",
      color |-> "Black", quantity |-> 1, status |-> "in-route",
      order_date |-> "June 13, 2025", comments |-> "",
      section |-> "Section A"],
     [id |-> "ORD-2025-003", booth_number |-> "B-156",
      exhibitor_name |-> "GreenWave Energy",
      item |-> "Marketing Materials Bundle",
      description |-> "Banners, brochures, business cards, and promotional items",
      color |-> "Green", quantity |-> 5, status |-> "delivered",
      order_date |-> "June 12, 2025", comments |-> "Eco-friendly materials requested",
      section |-> "Section B"],
     [id |-> "ORD-2025-004", booth_number |-> "C-089",
      exhibitor_name |-> "SmartHealth Corp",
      item |-> "Audio-Visual Equipment",
      description |-> "Professional sound system, microphones, and presentation equipment",
      color |-> "White", quantity |-> 1, status |-> "in-process",
      order_date |-> "June 14, 2025", comments |-> "Medical grade equipment required",
      section |-> "Section C"] >>


\* What the Record Source (abacus_manager.get_orders_data) can hand back on
\* success: no records, well-formed records, or records that lack a field
\* (the program validates nothing).
UpstreamOrders ==
  << [id |-> "AB-1", booth_number |-> "a-245",
      exhibitor_name |-> "techflow innovations",
      item |-> "Carpet", description |-> "", color |-> "Grey", quantity |-> 2,
      status |-> "delivered", order_date |-> "June 15, 2025", comments |-> "",
      section |-> "Section A"],
     [id |-> "AB-2", booth_number |-> "B-156",
      exhibitor_name |-> "GreenWave Energy",
      item |-> "Table", description |-> "", color |-> "Black", quantity |-> 1,
      status |-> "cancelled", order_date |-> "June 15, 2025", comments |-> "",
      section |-> "Section B"] >>

MalformedOrders ==
  << [id |-> "AB-3", booth_number |-> "A-245",
      exhibitor_name |-> "TechFlow Innovations"] >>

\* The outcomes of one Record Source call: it raises, or it returns data.
Outcomes(D) ==
  {[ok |-> FALSE, data |-> << >>]} \cup {[ok |-> TRUE, data |-> d] : d \in D}

\* A Record Source that keeps its contract returns Order records.
SourceOutcomes == Outcomes({<< >>, UpstreamOrders})

\* One that does not may also return records that lack fields.
FaultyOutcomes == Outcomes({<< >>, UpstreamOrders, MalformedOrders})

(***************************************************************************)
(* Pure helpers.                                                           *)
(***************************************************************************)
\* str.lower() on the strings that occur as identifiers.
Lower(s) ==
  CASE s = "A-245" -> "a-245"
    [] s = "B-156" -> "b-156"
    [] s = "C-089" -> "c-089"
    [] s = "TechFlow Innovations" -> "techflow innovations"
    [] s = "GreenWave Energy" -> "greenwave energy"
    [] s = "SmartHealth Corp" -> "smarthealth corp"
    [] OTHER -> s

\* order[f] raises KeyError when the record has no field f.
HasField(o, f) == f \in DOMAIN o

\* Python truthiness of a list: the empty list is falsy.
TruthyList(l) == Len(l) > 0

\* A slip in a status count: the orders that are not in the status.
CountOthers(orders, st) ==
  Len(SelectSeq(orders, LAMBDA o : o.status # st))

\* len([o for o in orders if o['status'] == st]); the handlers' models first
\* check that no order lacks the field.
CountStatus(orders, st) ==
  Len(SelectSeq(orders, LAMBDA o : o.status = st))


(***************************************************************************)
(* Query derivations (the bodies of the route handlers).                   *)
(***************************************************************************)
\* Lines 191-196 raise KeyError: the filter reads order['booth_number'] of
\* every order, the count reads o['status'] of every matching order.
BoothRaises(all, b) ==
  \E i \in 1..Len(all) :
     \/ ~HasField(all[i], "booth_number")
     \/ /\ Lower(all[i].booth_number) = Lower(b)
        /\ ~HasField(all[i], "status")

BoothOrders(all, b) ==
  SelectSeq(all, LAMBDA o : Lower(o.booth_number) = Lower(b))

BoothBundle(all, b, f, t) ==
  [booth |-> b,
   orders |-> BoothOrders(all, b),
   total_orders |-> Len(BoothOrders(all, b)),
   delivered_orders |-> CountStatus(BoothOrders(all, b), "delivered"),
   last_updated |-> t,
   force_refreshed |-> f]

BoothErrorBundle(b, t, e) ==
  [booth |-> b, orders |-> << >>, total_orders |-> 0, delivered_orders |-> 0,
   last_updated |-> t, error |-> e]

ExhibitorRaises(all, x) ==
  \E i \in 1..Len(all) :
     \/ ~HasField(all[i], "exhibitor_name")
     \/ /\ Lower(all[i].exhibitor_name) = Lower(x)
        /\ ~HasField(all[i], "status")

ExhibitorOrders(all, x) ==
  SelectSeq(all, LAMBDA o : Lower(o.exhibitor_name) = Lower(x))

ExhibitorBundle(all, x, f, t) ==
  [exhibitor |-> x,
   orders |-> ExhibitorOrders(all, x),
   total_orders |-> Len(ExhibitorOrders(all, x)),
   delivered_orders |-> CountStatus(ExhibitorOrders(all, x), "delivered"),
   last_updated |-> t,
   force_refreshed |-> f]

ExhibitorErrorBundle(x, t, e) ==
  [exhibitor |-> x, orders |-> << >>, total_orders |-> 0, delivered_orders |-> 0,
   last_updated |-> t, error |-> e]

\* The loop of get_exhibitors reads three fields of every order.
RosterRaises(all) ==
  \E i \in 1..Len(all) :
     \/ ~HasField(all[i], "exhibitor_name")
     \/ ~HasField(all[i], "booth_number")
     \/ ~HasField(all[i], "status")

\* A slip in line 306: every order counts as delivered.
RosterStepAllDelivered(acc, o) ==
  LET known == \E j \in 1..Len(acc) : acc[j].name = o.exhibitor_name
      acc1 == IF known THEN acc
              ELSE Append(acc, [name |-> o.exhibitor_name,
                                booth |-> o.booth_number,
                                total_orders |-> 0,
                                delivered_orders |-> 0])
  IN [j \in 1..Len(acc1) |->
        IF acc1[j].name = o.exhibitor_name
        THEN [acc1[j] EXCEPT !.total_orders = @ + 1, !.delivered_orders = @ + 1]
        ELSE acc1[j]]

\* One iteration of the loop: exhibitors_dict keeps insertion order, so it is
\* a sequence of summaries with at most one entry per name.
RosterStep(acc, o) ==
  LET known == \E j \in 1..Len(acc) : acc[j].name = o.exhibitor_name
      acc1 == IF known THEN acc
              ELSE Append(acc, [name |-> o.exhibitor_name,
                                booth |-> o.booth_number,
                                total_orders |-> 0,
                                delivered_orders |-> 0])
  IN [j \in 1..Len(acc1) |->
        IF acc1[j].name = o.exhibitor_name
        THEN [acc1[j] EXCEPT
                !.total_orders = @ + 1,
                !.delivered_orders = IF o.status = "delivered" THEN @ + 1 ELSE @]
        ELSE acc1[j]]

RECURSIVE RosterFrom(_, _, _)
\* The loop over the orders from the i-th on.  The step's result is bound as
\* the element of a one-element set, so that it is computed once per
\* iteration.
RosterFrom(all, i, acc) ==
  IF i > Len(all) THEN acc
  ELSE CHOOSE r \in {RosterFrom(all, i + 1, a) : a \in {RosterStep(acc, all[i])}} : TRUE

Roster(all) == RosterFrom(all, 1, << >>)

\* get_stats has no try: a KeyError on o['status'] escapes the handler.
StatsRaises(all) ==
  \E i \in 1..Len(all) : ~HasField(all[i], "status")

Stats(all, t) ==
  [total_orders |-> Len(all),
   delivered |-> CountStatus(all, "delivered"),
   in_process |-> CountStatus(all, "in-process"),
   in_route |-> CountStatus(all, "in-route"),
   out_for_delivery |-> CountStatus(all, "out-for-delivery"),
   cancelled |-> CountStatus(all, "cancelled"),
   last_updated |-> t]

(***************************************************************************)
(* State.                                                                  *)
(***************************************************************************)
VARIABLES
  CACHE,     \* the global dict: key -> [data, timestamp]
  now,       \* datetime.now(), in seconds
  th,        \* per worker thread: the request it serves and its locals
  last,      \* output: the request the last step completed, with its response
  obs,       \* output: what the get_from_cache call saw that the last step returned from
  written,   \* history: per key, the last set_cache since the last clear
  cleared,   \* history: the keys that had been set when a clear ran
  clears,    \* history: the clears so far
  failAt,    \* history: when the mock fallback was last stored since the last clear
  started,   \* requests started so far
  budget,    \* requests that one run may start
  ticks      \* clock advances so far

vars == <<CACHE, now, th, last, obs, written, cleared, clears, failAt, started, budget, ticks>>

\* Cache keys.  f"booth_{b}" and f"exhibitor_{x}" are injective in b and x and
\* never equal "all_orders" or "exhibitors": a key is its prefix and its
\* argument.
AllOrdersKey == <<"all_orders">>
ExhibitorsKey == <<"exhibitors">>
BoothKey(b) == <<"booth_", b>>
ExhibitorKey(x) == <<"exhibitor_", x>>

\* Identifiers that requests carry.
BoothArgs == {"A-245", "a-245"}
ExhibitorArgs == {"GreenWave Energy"}

\* Direct calls of the cache functions (the cache taken alone).
TestKeys == {<<"k1">>, <<"k2">>}
TestValues == {"v1", "v2"}

EmptyDict == [k \in {} |-> 0]

NoResp == [status |-> 0, tag |-> "none"]
NoObs == [valid |-> FALSE]
NoCall == [cleared |-> FALSE, set |-> FALSE, at |-> 0, fail |-> << >>, clears |-> 0]

IdleThread ==
  [pc |-> "idle", kind |-> "none", arg |-> "", force |-> FALSE,
   allow |-> TRUE, gkey |-> AllOrdersKey, orders |-> << >>,
   load |-> "none", srcCalls |-> 0, src |-> "none", resp |-> NoResp,
   call |-> NoCall, warm |-> FALSE, over |-> "nothing"]

InitWith(n) ==
  /\ budget = n
  /\ CACHE = EmptyDict
  /\ now = 0
  /\ th = [p \in Workers |-> IdleThread]
  /\ last = IdleThread
  /\ obs = NoObs
  /\ written = EmptyDict
  /\ cleared = {}
  /\ clears = 0
  /\ failAt = << >>
  /\ started = 0
  /\ ticks = 0

Init == InitWith(MaxRequests)

(***************************************************************************)
(* TTL cache.                                                              *)
(***************************************************************************)
\* A slip in line 32: an entry exactly as old as the TTL still counts as fresh.
FreshInclusive(timestamp, t) == t - timestamp <= CACHE_DURATION

\* Line 32: the entry is fresh.
Fresh(timestamp, t) == t - timestamp < CACHE_DURATION

\* A slip in line 38: the value and its timestamp are stored apart, and a
\* reader finds the new value beside the timestamp of the entry before.
set_cacheTorn(c, key, data, t) ==
  [k \in DOMAIN c \cup {key} |->
     IF k = key
     THEN [data |-> data,
           timestamp |-> IF key \in DOMAIN c THEN c[key].timestamp ELSE t]
     ELSE c[k]]

\* A slip in line 38: setdefault, which keeps the entry a key already has.
set_cacheKeepFirst(c, key, data, t) ==
  [k \in DOMAIN c \cup {key} |->
     IF k \in DOMAIN c THEN c[k] ELSE [data |-> data, timestamp |-> t]]

\* A slip in line 38: the name is rebound to a dict of the one new entry.
set_cacheAlone(c, key, data, t) ==
  [k \in {key} |-> [data |-> data, timestamp |-> t]]

\* set_cache: CACHE[key] = (data, datetime.now())
set_cache(c, key, data, t) ==
  [k \in DOMAIN c \cup {key} |->
     IF k = key THEN [data |-> data, timestamp |-> t] ELSE c[k]]

\* The history of set_cache calls, kept beside the dict.
Record(h, key, data, t) ==
  [k \in DOMAIN h \cup {key} |->
     IF k = key THEN [data |-> data, at |-> t] ELSE h[k]]

\* A slip in lines 185, 234: a bundle that was found is not taken.
TruthyIfList(k, data) ==
  k \in {AllOrdersKey, ExhibitorsKey} /\ TruthyList(data)

\* `if cached_data:` on what get_from_cache returned for key k: a list is
\* truthy when non-empty, a bundle dict always (it has six keys).
Truthy(k, data) ==
  IF k \in {AllOrdersKey, ExhibitorsKey} THEN TruthyList(data) ELSE TRUE

\* A slip in line 26: the flag is ignored.
BypassedNever(allow) == FALSE

\* Line 26: `if not allow_cache`.
Bypassed(allow) == ~allow

(***************************************************************************)
(* Where a thread goes on: each operator gives the thread's next locals.   *)
(***************************************************************************)
\* load_orders_from_abacus returns ords to its caller, which goes on to its
\* own next shared access.  get_all_orders and get_stats respond at once.
ThreadAfterLoad(t, ords, time) ==
  LET t1 == [t EXCEPT !.orders = ords, !.load = "returned"]
  IN CASE t.kind = "orders" ->
            [t1 EXCEPT !.pc = "done",
                       !.resp = [status |-> 200, tag |-> "orders", body |-> ords]]
       [] t.kind = "stats" ->
            IF StatsRaises(ords)
            THEN [t1 EXCEPT !.pc = "done",
                            !.resp = [status |-> 500, tag |-> "unhandled",
                                      error |-> "KeyError: 'status'"]]
            ELSE [t1 EXCEPT !.pc = "done",
                            !.resp = [status |-> 200, tag |-> "stats",
                                      body |-> Stats(ords, time)]]
       [] OTHER -> [t1 EXCEPT !.pc = "derive"]

\* A slip in the handlers: force_refresh is not passed on, and
\* load_orders_from_abacus runs with its default, False.
EnterLoadUnforced(t) ==
  [t EXCEPT !.pc = "get", !.gkey = AllOrdersKey, !.load = "running"]

\* Lines 52-58: load_orders_from_abacus looks into the cache unless forced.
EnterLoad(t) ==
  IF ~t.force
  THEN [t EXCEPT !.pc = "get", !.gkey = AllOrdersKey, !.load = "running"]
  ELSE [t EXCEPT !.pc = "fetch", !.load = "running"]

\* get_from_cache returns (hit: data, otherwise None) to its caller.
ThreadAfterGet(t, hit, data, time) ==
  CASE t.kind = "get_from_cache" ->
         [t EXCEPT !.pc = "done",
                   !.resp = [status |-> 0, tag |-> "returned",
                             ret |-> IF hit THEN [some |-> TRUE, data |-> data]
                                            ELSE [some |-> FALSE]]]
    [] t.kind # "get_from_cache" /\ t.gkey # AllOrdersKey ->
         IF hit /\ Truthy(t.gkey, data)
         THEN [t EXCEPT !.pc = "done",
                        !.resp = [status |-> 200, tag |-> "cached", body |-> data]]
         ELSE EnterLoad(t)
    [] OTHER ->
         IF hit /\ Truthy(t.gkey, data)
         THEN ThreadAfterLoad(t, data, time)
         ELSE [t EXCEPT !.pc = "fetch"]

\* CACHE[key] on line 31 raised KeyError.  The lookups of the derived keys
\* (lines 184, 233, 282) and load_orders_from_abacus's own (line 56) are
\* outside every try; the handlers' calls of load_orders_from_abacus (lines
\* 190, 239, 290) are inside one, get_all_orders' and get_stats' are not.
ThreadAfterKeyError(t, time) ==
  CASE t.kind = "get_from_cache" ->
         [t EXCEPT !.pc = "done",
                   !.resp = [status |-> 0, tag |-> "raised", error |-> "KeyError"]]
    [] t.kind # "get_from_cache" /\ t.gkey # AllOrdersKey ->
         [t EXCEPT !.pc = "done",
                   !.resp = [status |-> 500, tag |-> "unhandled", error |-> "KeyError"]]
    [] OTHER ->
         LET t1 == [t EXCEPT !.load = "raised", !.pc = "done"]
         IN CASE t.kind = "booth" ->
                   [t1 EXCEPT !.resp = [status |-> 500, tag |-> "error_bundle",
                        body |-> BoothErrorBundle(t.arg, time, "'all_orders'")]]
              [] t.kind = "exhibitor" ->
                   [t1 EXCEPT !.resp = [status |-> 500, tag |-> "error_bundle",
                        body |-> ExhibitorErrorBundle(t.arg, time, "'all_orders'")]]
              [] t.kind = "exhibitors" ->
                   [t1 EXCEPT !.resp = [status |-> 500, tag |-> "error_list",
                                        body |-> << >>]]
              [] OTHER ->
                   [t1 EXCEPT !.resp = [status |-> 500, tag |-> "unhandled",
                                        error |-> "KeyError"]]

\* What the history says when a get_from_cache call for key k begins:
\* whether k had been set when some clear ran, whether it has been set since
\* the last one, the time, when the fallback was last stored, and the
\* clears so far.
CallInfo(k) ==
  [cleared |-> k \in cleared, set |-> k \in DOMAIN written,
   at |-> now, fail |-> failAt, clears |-> clears]

\* What a get_from_cache call saw when it returned (how: "hit", "none" or
\* "raised"), beside what the history of sets says about its key and what
\* the dict holds at that moment.
Observe(p, t, call, how, data, time) ==
  [valid |-> TRUE, by |-> p, kind |-> t.kind, key |-> t.gkey, allow |-> t.allow, at |-> time,
   how |-> how, ret |-> IF how = "hit" THEN <<data>> ELSE << >>,
   stored |-> IF t.gkey \in DOMAIN written THEN <<written[t.gkey]>> ELSE << >>,
   call |-> call, dict |-> CACHE]

(***************************************************************************)
(* get_from_cache, in two steps: lines 26-30 and lines 31-35.              *)
(***************************************************************************)
\* A step of thread p leaves it with locals t.  When the step responds, the
\* thread is free again and the step's output is the request with its
\* response; any other step outputs nothing.
Settle(p, t) ==
  IF t.pc = "done"
  THEN /\ th' = [th EXCEPT ![p] = IdleThread]
       /\ last' = t
  ELSE /\ th' = [th EXCEPT ![p] = t]
       /\ last' = IdleThread

\* Lines 26-30 for a thread with locals t: bypassed or no such key, the call
\* returns None; otherwise it goes on to read the entry.
CheckStep(p, t) ==
  IF Bypassed(t.allow) \/ t.gkey \notin DOMAIN CACHE
  THEN /\ Settle(p, ThreadAfterGet(t, FALSE, << >>, now))
       /\ obs' = Observe(p, t, CallInfo(t.gkey), "none", << >>, now)
  ELSE /\ Settle(p, [t EXCEPT !.pc = "read", !.call = CallInfo(t.gkey)])
       /\ obs' = NoObs

GetCheck(p) ==
  /\ th[p].pc = "get"
  /\ CheckStep(p, th[p])
  /\ UNCHANGED <<CACHE, now, written, cleared, clears, failAt, started, budget, ticks>>

GetRead(p) ==
  /\ th[p].pc = "read"
  /\ IF th[p].gkey \notin DOMAIN CACHE
     THEN /\ Settle(p, ThreadAfterKeyError(th[p], now))
          /\ obs' = Observe(p, th[p], th[p].call, "raised", << >>, now)
     ELSE LET e == CACHE[th[p].gkey]
              hit == Fresh(e.timestamp, now)
          IN /\ Settle(p, ThreadAfterGet(th[p], hit, e.data, now))
             /\ obs' = Observe(p, th[p], th[p].call,
                               IF hit THEN "hit" ELSE "none", e.data, now)
  /\ UNCHANGED <<CACHE, now, written, cleared, clears, failAt, started, budget, ticks>>

(***************************************************************************)
(* load_orders_from_abacus, lines 60-87: the Record Source call and what   *)
(* follows it.  A thread at "fetch" is in (or about to make) the call.     *)
(***************************************************************************)
\* A slip in line 71: any result of a call that did not raise is taken.
UsableWhenReturned(out) == out.ok

\* Line 71: `orders_data and len(orders_data) > 0`.
Usable(out) == out.ok /\ TruthyList(out.data) /\ Len(out.data) > 0

\* A slip in lines 71-87: whatever the call gave is taken, without fallback.
LoadedUnchecked(out) == out.data

\* What the call stores and returns: the fetched records, or the mock set
\* when the call raised or the test of line 71 failed (lines 78-87).
Loaded(out) == IF Usable(out) THEN out.data ELSE get_mock_orders

\* A slip in lines 80-87: the fallback is returned but not stored.
StoreOnlyFetched(c, out, t) ==
  IF Usable(out) THEN set_cache(c, AllOrdersKey, out.data, t) ELSE c

\* A slip in lines 85-86: the fallback is not stored over an entry that is
\* already there.
StoreFallbackOnce(c, out, t) ==
  IF ~Usable(out) /\ AllOrdersKey \in DOMAIN c THEN c
  ELSE set_cache(c, AllOrdersKey, Loaded(out), t)

\* Lines 73 and 86: whichever it is, the result is stored under "all_orders".
StoreLoaded(c, out, t) == set_cache(c, AllOrdersKey, Loaded(out), t)

\* History: what "all_orders" holds at the moment a call stores its result
\* over it.
Held ==
  IF AllOrdersKey \notin DOMAIN CACHE THEN "no entry"
  ELSE IF ~(now - CACHE[AllOrdersKey].timestamp < 120) THEN "stale entry"
  ELSE IF CACHE[AllOrdersKey].data = get_mock_orders THEN "fresh mock set"
  ELSE "fresh fetched orders"

\* A slip in lines 80-87: after a failed call the Record Source is called
\* again, up to three times, before the fallback.
FetchFromRetrying(p, outs) ==
  /\ th[p].pc = "fetch"
  /\ \E out \in outs :
       IF ~Usable(out) /\ th[p].srcCalls < 2
       THEN /\ Settle(p, [th[p] EXCEPT !.srcCalls = @ + 1])
            /\ UNCHANGED <<CACHE, written, failAt>>
       ELSE /\ CACHE' = StoreLoaded(CACHE, out, now)
            /\ written' = Record(written, AllOrdersKey, Loaded(out), now)
            /\ failAt' = IF Usable(out) THEN failAt ELSE <<now>>
            /\ Settle(p, ThreadAfterLoad(
                            [th[p] EXCEPT !.srcCalls = @ + 1,
                                          !.src = IF Usable(out) THEN "ok" ELSE "failed",
                                          !.over = Held],
                            Loaded(out), now))
  /\ obs' = NoObs
  /\ UNCHANGED <<now, cleared, clears, started, budget, ticks>>

\* The call with the Record Source's outcome drawn from outs.
FetchFrom(p, outs) ==
  /\ th[p].pc = "fetch"
  /\ \E out \in outs :
       /\ CACHE' = StoreLoaded(CACHE, out, now)
       /\ written' = Record(written, AllOrdersKey, Loaded(out), now)
       /\ failAt' = IF Usable(out) THEN failAt ELSE <<now>>
       /\ Settle(p, ThreadAfterLoad(
                       [th[p] EXCEPT !.srcCalls = @ + 1,
                                     !.src = IF Usable(out) THEN "ok" ELSE "failed",
                                     !.over = Held],
                       Loaded(out), now))
  /\ obs' = NoObs
  /\ UNCHANGED <<now, cleared, clears, started, budget, ticks>>

\* The Record Source keeps its contract.
Fetch(p) == FetchFrom(p, SourceOutcomes)

\* The Record Source is down: every call raises.
FetchFailing(p) == FetchFrom(p, {[ok |-> FALSE, data |-> << >>]})

\* The Record Source may hand back records that lack fields.
FetchFaulty(p) == FetchFrom(p, FaultyOutcomes)

(***************************************************************************)
(* The handlers after load_orders_from_abacus returned: derive, store,     *)
(* respond (lines 191-223, 240-272, 291-315).                              *)
(***************************************************************************)
DeriveKey(t) ==
  CASE t.kind = "booth" -> BoothKey(t.arg)
    [] t.kind = "exhibitor" -> ExhibitorKey(t.arg)
    [] OTHER -> ExhibitorsKey

DeriveRaises(t) ==
  CASE t.kind = "booth" -> BoothRaises(t.orders, t.arg)
    [] t.kind = "exhibitor" -> ExhibitorRaises(t.orders, t.arg)
    [] OTHER -> RosterRaises(t.orders)

DeriveResult(t, time) ==
  CASE t.kind = "booth" -> BoothBundle(t.orders, t.arg, t.force, time)
    [] t.kind = "exhibitor" -> ExhibitorBundle(t.orders, t.arg, t.force, time)
    [] OTHER -> Roster(t.orders)

DeriveError(t, time) ==
  CASE t.kind = "booth" ->
         [status |-> 500, tag |-> "error_bundle",
          body |-> BoothErrorBundle(t.arg, time, "KeyError")]
    [] t.kind = "exhibitor" ->
         [status |-> 500, tag |-> "error_bundle",
          body |-> ExhibitorErrorBundle(t.arg, time, "KeyError")]
    [] OTHER -> [status |-> 500, tag |-> "error_list", body |-> << >>]

Derive(p) ==
  /\ th[p].pc = "derive"
  /\ IF DeriveRaises(th[p])
     THEN /\ Settle(p, [th[p] EXCEPT !.pc = "done", !.resp = DeriveError(th[p], now)])
          /\ UNCHANGED <<CACHE, written>>
     ELSE /\ CACHE' = set_cache(CACHE, DeriveKey(th[p]), DeriveResult(th[p], now), now)
          /\ written' = Record(written, DeriveKey(th[p]), DeriveResult(th[p], now), now)
          /\ Settle(p, [th[p] EXCEPT !.pc = "done",
                                     !.resp = [status |-> 200, tag |-> "derived",
                                               body |-> DeriveResult(th[p], now)]])
  /\ obs' = NoObs
  /\ UNCHANGED <<now, cleared, clears, failAt, started, budget, ticks>>

(***************************************************************************)
(* Requests arrive: a free thread takes one.                               *)
(***************************************************************************)
\* The server hands a request to an idle thread; the threads are alike, so
\* it is the first idle one.
Free(p) ==
  /\ th[p].pc = "idle"
  /\ \A q \in Workers : q < p => th[q].pc # "idle"
  /\ started < budget

\* request.args.get('force_refresh', 'false').lower() == 'true' is some
\* boolean f chosen by the client.
NewRequest(kind, arg, f) ==
  [IdleThread EXCEPT !.kind = kind, !.arg = arg, !.force = f]

\* History: when the request arrives, fresh entries are stored both under
\* its own key and under "all_orders".
HoldsFresh(k) == k \in DOMAIN CACHE /\ now - CACHE[k].timestamp < 120

Warm(t) ==
  /\ HoldsFresh(AllOrdersKey)
  /\ t.kind \in {"booth", "exhibitor", "exhibitors"} => HoldsFresh(DeriveKey(t))

\* A request's first step runs the handler up to its first access to shared
\* state: the membership test of a lookup, or the Record Source call.
Begin(p, t0) ==
  /\ LET t == [t0 EXCEPT !.warm = Warm(t0)]
     IN IF t.pc = "get"
        THEN CheckStep(p, t)
        ELSE Settle(p, t) /\ obs' = NoObs
  /\ started' = started + 1
  /\ UNCHANGED <<CACHE, now, written, cleared, clears, failAt, budget, ticks>>

\* get_all_orders and get_stats call load_orders_from_abacus at once.
StartOrdersOf(p, flags) ==
  /\ Free(p)
  /\ \E f \in flags :
       Begin(p, EnterLoad(NewRequest("orders", "", f)))

\* Requests for the order list: any, those without force_refresh and those
\* with it.
StartOrders(p) == StartOrdersOf(p, BOOLEAN)
StartOrdersCached(p) == StartOrdersOf(p, {FALSE})
StartOrdersForced(p) == StartOrdersOf(p, {TRUE})

StartStats(p) ==
  /\ Free(p)
  /\ \E f \in BOOLEAN :
       Begin(p, EnterLoad(NewRequest("stats", "", f)))

\* Lines 179-186 (and 228-235, 277-284): the handler looks up its own key
\* unless forced, and otherwise goes straight to load_orders_from_abacus.
EnterHandler(t) ==
  IF ~t.force
  THEN [t EXCEPT !.pc = "get", !.gkey = DeriveKey(t)]
  ELSE EnterLoad(t)

StartBoothOf(p, booths) ==
  /\ Free(p)
  /\ \E b \in booths, f \in BOOLEAN :
       Begin(p, EnterHandler(NewRequest("booth", b, f)))

\* Queries for one booth, and for the same booth typed in either case.
StartBooth(p) == StartBoothOf(p, {"A-245"})
StartBoothAnyCase(p) == StartBoothOf(p, BoothArgs)

StartExhibitor(p) ==
  /\ Free(p)
  /\ \E x \in ExhibitorArgs, f \in BOOLEAN :
       Begin(p, EnterHandler(NewRequest("exhibitor", x, f)))

StartExhibitors(p) ==
  /\ Free(p)
  /\ \E f \in BOOLEAN :
       Begin(p, EnterHandler(NewRequest("exhibitors", "", f)))

\* A booth, exhibitor or roster query without force_refresh.
StartDerivedCached(p) ==
  /\ Free(p)
  /\ \E t \in {NewRequest("booth", b, FALSE) : b \in {"A-245"}}
            \cup {NewRequest("exhibitor", x, FALSE) : x \in ExhibitorArgs}
            \cup {NewRequest("exhibitors", "", FALSE)} :
       Begin(p, EnterHandler(t))

\* A slip in clear_cache: without `global CACHE` the assignment binds a
\* local name and the dict stays as it is.
ClearedLocally(c) == c

\* clear_cache: `global CACHE; CACHE = {}` rebinds the name, in one store,
\* to a new empty dict, whatever dict c it named.
Cleared(c) == EmptyDict

DoClear(p) ==
  /\ CACHE' = Cleared(CACHE)
  /\ written' = EmptyDict
  /\ cleared' = cleared \cup DOMAIN written
  /\ clears' = clears + 1
  /\ failAt' = << >>
  /\ Settle(p, [NewRequest("clear", "", FALSE) EXCEPT
                   !.pc = "done",
                   !.resp = [status |-> 200, tag |-> "message",
                             body |-> "Cache cleared successfully"]])
  /\ started' = started + 1
  /\ obs' = NoObs
  /\ UNCHANGED <<now, budget, ticks>>

ClearCache(p) == Free(p) /\ DoClear(p)

\* health_check reads len(CACHE).
HealthCheck(p) ==
  /\ Free(p)
  /\ Settle(p, [NewRequest("health", "", FALSE) EXCEPT
                   !.pc = "done",
                   !.resp = [status |-> 200, tag |-> "health",
                             body |-> [status |-> "healthy", timestamp |-> now,
                                       abacus_ai_connected |-> TRUE,
                                       cache_size |-> Cardinality(DOMAIN CACHE)]]])
  /\ started' = started + 1
  /\ obs' = NoObs
  /\ UNCHANGED <<CACHE, now, written, cleared, clears, failAt, budget, ticks>>

\* The wall clock advances, between any two steps of any threads.
Tick ==
  /\ ticks < MaxTicks
  /\ \E d \in TickSteps : now' = now + d
  /\ ticks' = ticks + 1
  /\ last' = IdleThread
  /\ obs' = NoObs
  /\ UNCHANGED <<CACHE, th, written, cleared, clears, failAt, started, budget>>

\* The wall clock passes the lifetime of every entry stored so far, once.
Expire ==
  /\ ticks = 0
  /\ now' = now + CACHE_DURATION
  /\ ticks' = 1
  /\ last' = IdleThread
  /\ obs' = NoObs
  /\ UNCHANGED <<CACHE, th, written, cleared, clears, failAt, started, budget>>

(***************************************************************************)
(* The cache taken alone: threads call get_from_cache and set_cache        *)
(* directly, with any key, any value and either allow_cache.               *)
(***************************************************************************)
CallGet(p) ==
  /\ Free(p)
  /\ \E k \in TestKeys, a \in BOOLEAN :
       Begin(p, [NewRequest("get_from_cache", "", FALSE) EXCEPT
                   !.pc = "get", !.gkey = k, !.allow = a])

CallSet(p) ==
  /\ Free(p)
  /\ \E k \in TestKeys, v \in TestValues :
       /\ CACHE' = set_cache(CACHE, k, v, now)
       /\ written' = Record(written, k, v, now)
       /\ Settle(p, [NewRequest("set_cache", "", FALSE) EXCEPT
                        !.pc = "done", !.gkey = k,
                        !.resp = [status |-> 0, tag |-> "returned",
                                  ret |-> [some |-> FALSE]]])
  /\ started' = started + 1
  /\ obs' = NoObs
  /\ UNCHANGED <<now, cleared, clears, failAt, budget, ticks>>

CallClear(p) == Free(p) /\ DoClear(p)

CacheNext ==
  \/ Tick
  \/ \E p \in Workers :
       CallGet(p) \/ CallSet(p) \/ CallClear(p) \/ GetRead(p)

CacheSpec == InitWith(MaxCalls) /\ [][CacheNext]_vars

(***************************************************************************)
(* The application.  Spec: the order list, the queries for one booth and  *)
(* the clear, on concurrent threads, while the clock advances.             *)
(***************************************************************************)
Next ==
  \/ Tick
  \/ \E p \in Workers :
       \/ StartOrders(p) \/ StartBooth(p)
       \/ ClearCache(p)
       \/ GetCheck(p) \/ GetRead(p) \/ Fetch(p) \/ Derive(p)

Spec == Init /\ [][Next]_vars

\* The Record Source is down for the whole run and nobody clears the cache.
FailingNext ==
  \/ Tick
  \/ \E p \in Workers :
       \/ StartOrders(p) \/ StartStats(p)
       \/ GetRead(p) \/ FetchFailing(p)

FailingSpec == Init /\ [][FailingNext]_vars

\* Requests for the order list, none of them forced: a call fetches only
\* after a miss.
RaceNext ==
  \/ Tick
  \/ \E p \in Workers :
       StartOrdersCached(p) \/ GetRead(p) \/ Fetch(p)

RaceSpec == Init /\ [][RaceNext]_vars

\* Booth queries that spell the booth in either case.
CaseNext ==
  \/ Tick
  \/ \E p \in Workers :
       \/ StartBoothAnyCase(p)
       \/ GetCheck(p) \/ GetRead(p) \/ Fetch(p) \/ Derive(p)

CaseSpec == Init /\ [][CaseNext]_vars

\* Every route, in runs of MaxQueries requests; the clock jumps once.
AllRoutesNext ==
  \/ Expire
  \/ \E p \in Workers :
       \/ StartOrders(p) \/ StartStats(p) \/ StartBooth(p)
       \/ StartExhibitor(p) \/ StartExhibitors(p)
       \/ ClearCache(p) \/ HealthCheck(p)
       \/ GetCheck(p) \/ GetRead(p) \/ Fetch(p) \/ Derive(p)

AllRoutesSpec == InitWith(MaxQueries) /\ [][AllRoutesNext]_vars

\* The query routes over a Record Source that may hand back records lacking
\* fields; nobody clears the cache.
FaultyNext ==
  \E p \in Workers :
     \/ StartStats(p) \/ StartBooth(p)
     \/ StartExhibitor(p) \/ StartExhibitors(p)
     \/ GetCheck(p) \/ GetRead(p) \/ FetchFaulty(p) \/ Derive(p)

FaultySpec == InitWith(MaxQueries) /\ [][FaultyNext]_vars

\* Derived queries without force_refresh beside forced requests for the
\* order list; the clock jumps once.
DerivedNext ==
  \/ Expire
  \/ \E p \in Workers :
       \/ StartOrdersForced(p) \/ StartDerivedCached(p)
       \/ GetCheck(p) \/ GetRead(p) \/ Fetch(p) \/ Derive(p)

DerivedSpec == Init /\ [][DerivedNext]_vars

\* Every route, with the scheduling the server gives: a thread that serves a
\* request goes on running, and a Record Source call returns or raises.
Step(p) == GetCheck(p) \/ GetRead(p) \/ Fetch(p) \/ Derive(p)

\* The query routes and the cache-clear route within one cache lifetime:
\* a lookup finds its key absent, cleared away or fresh, and forced
\* requests go to the Record Source past fresh entries.
LiveNext ==
  \E p \in Workers :
     \/ StartOrders(p) \/ StartStats(p) \/ StartBooth(p)
     \/ StartExhibitor(p) \/ StartExhibitors(p)
     \/ ClearCache(p)
     \/ GetCheck(p) \/ GetRead(p) \/ Fetch(p) \/ Derive(p)

LiveSpec ==
  /\ InitWith(MaxQueries)
  /\ [][LiveNext]_vars
  /\ \A p \in Workers : WF_vars(Step(p))

(***************************************************************************)
(* Properties.                                                             *)
(***************************************************************************)

\* C1: a non-bypassed get_from_cache(k) that returns when the last
\* set_cache(k, v), at time fetched_at, has been followed by no other set of
\* k and no clear, returns v exactly when now - fetched_at < 120 seconds,
\* and None when 120 seconds or more have passed since the set.
C1_FreshUntilTTL ==
  (obs.valid /\ obs.allow /\ obs.stored # << >>) =>
     LET v == obs.stored[1].data
         fetched_at == obs.stored[1].at
     IN IF obs.at - fetched_at < 120
        THEN obs.how = "hit" /\ obs.ret = <<v>>
        ELSE obs.how = "none"

\* A get of an entry that is exactly 120 seconds old returned None.
C1_Witness ==
  /\ obs.valid /\ obs.allow /\ obs.stored # << >>
  /\ obs.at - obs.stored[1].at = 120
  /\ obs.how = "none"

\* C2: get_from_cache(k, allow_cache=False) returns None in every cache
\* state, with or without a fresh entry for k, and the dict is after the call
\* what it was before it.
C2_BypassReturnsNone ==
  (obs.valid /\ ~obs.allow) => (obs.how = "none" /\ CACHE = obs.dict)

\* A bypassed get returned None although a fresh entry for its key is stored.
C2_Witness ==
  /\ obs.valid /\ ~obs.allow /\ obs.how = "none"
  /\ obs.key \in DOMAIN CACHE
  /\ obs.at - CACHE[obs.key].timestamp < 120

\* C3 as stated: once a clear has run, every later non-bypassed get of a key
\* that had been set before that clear returns None.
C3_AbsentAfterClear_Original ==
  (obs.valid /\ obs.allow /\ obs.call.cleared) => obs.how = "none"

\* C3, amended: ... returns None as long as the key has not been set again
\* since the last clear.
C3_AbsentAfterClear ==
  (obs.valid /\ obs.allow /\ obs.call.cleared /\ ~obs.call.set) => obs.how = "none"

\* A get of a key that was set, then cleared and not set again, returned
\* None at a time when the cleared entry would still have been fresh.
C3_Witness ==
  /\ obs.valid /\ obs.allow /\ obs.call.cleared /\ ~obs.call.set
  /\ obs.how = "none"
  /\ obs.at < 120

\* C4: no cache operation raises an error, in any interleaving of concurrent
\* requests: every get_from_cache call returns (a value or None).
C4_CacheNeverFails == obs.valid => obs.how # "raised"

\* The request that the last step left: the one it completed, or the one the
\* stepping thread is still serving.
Served(p) == IF th[p].pc = "idle" THEN last ELSE th[p]

\* C5: load_orders_from_abacus never propagates a failure to its caller: every
\* call that ends, ends by returning a non-empty order sequence.
C5_LoadNeverFails ==
  /\ last.load # "none" => (last.load = "returned" /\ Len(last.orders) > 0)
  /\ \A p \in Workers :
       th[p].load = "returned" => Len(th[p].orders) > 0

\* C6: with the Record Source down for the whole run, every call of
\* load_orders_from_abacus returns the same mock set, whose first order is
\* ORD-2025-001, out for delivery; a second call within the TTL window gets it
\* from the cache.
C6_SameMockSet ==
  last.load # "none" =>
     /\ last.load = "returned"
     /\ last.orders = get_mock_orders
     /\ last.orders[1].id = "ORD-2025-001"
     /\ last.orders[1].status = "out-for-delivery"
     /\ Len(last.orders) = 4

\* A non-forced call found the mock set in the cache, stored by an earlier
\* call less than 120 seconds before, and returned it.
C6_Witness ==
  /\ last.kind = "orders" /\ ~last.force
  /\ last.load = "returned" /\ last.srcCalls = 0
  /\ last.orders = get_mock_orders
  /\ obs.valid /\ obs.how = "hit" /\ obs.at - obs.stored[1].at < 120

C8_ForceInvokesSource ==
  (last.kind \in {"booth", "exhibitor", "exhibitors", "stats"} /\ last.force)
     => last.srcCalls >= 1

\* A forced booth query that arrived when fresh entries were stored under its
\* booth key and under "all_orders" responded after calling the Record Source.
C8_Witness ==
  /\ last.kind = "booth" /\ last.force /\ last.warm
  /\ last.srcCalls = 1 /\ last.resp.status = 200

\* C9: in every cache state, booth queries that differ only in the
\* letter case of the booth return the same matching orders: the orders just
\* returned for one spelling are those the cache holds, fresh, for the other.
C9_CaseInsensitive ==
  (last.kind = "booth" /\ last.resp.status = 200) =>
     \A b \in BoothArgs :
        (Lower(b) = Lower(last.arg) /\ HoldsFresh(BoothKey(b))) =>
           CACHE[BoothKey(b)].data.orders = last.resp.body.orders

\* C10: over the 4 mock orders the statistics are total_orders=4,
\* delivered=1, in_process=1, in_route=1, out_for_delivery=1, cancelled=0.
C10_MockStats ==
  (last.kind = "stats" /\ last.load = "returned" /\ last.orders = get_mock_orders) =>
     /\ last.resp.status = 200
     /\ last.resp.body.total_orders = 4
     /\ last.resp.body.delivered = 1
     /\ last.resp.body.in_process = 1
     /\ last.resp.body.in_route = 1
     /\ last.resp.body.out_for_delivery = 1
     /\ last.resp.body.cancelled = 0

\* A stats request was answered from the mock set.
C10_Witness ==
  /\ last.kind = "stats" /\ last.orders = get_mock_orders
  /\ last.resp.status = 200 /\ last.resp.body.total_orders = 4

\* C11 as stated: the roster derived from the 4 mock orders has exactly 2
\* entries, and the one named TechFlow Innovations has total_orders=2 and
\* delivered_orders=0.
C11_MockRoster_Original ==
  (last.kind = "exhibitors" /\ last.resp.tag = "derived"
     /\ last.orders = get_mock_orders) =>
       /\ Len(last.resp.body) = 2
       /\ \E j \in 1..Len(last.resp.body) :
            /\ last.resp.body[j].name = "TechFlow Innovations"
            /\ last.resp.body[j].total_orders = 2
            /\ last.resp.body[j].delivered_orders = 0

\* C11, amended: the roster derived from the 4 mock orders has exactly 3
\* entries, one per exhibitor name of the mock set, and the one named
\* TechFlow Innovations has total_orders=2 and delivered_orders=0.
C11_MockRoster ==
  (last.kind = "exhibitors" /\ last.resp.tag = "derived"
     /\ last.orders = get_mock_orders) =>
       /\ Len(last.resp.body) = 3
       /\ {last.resp.body[j].name : j \in 1..Len(last.resp.body)} =
            {"TechFlow Innovations", "GreenWave Energy", "SmartHealth Corp"}
       /\ \A j \in 1..Len(last.resp.body) :
            last.resp.body[j].name = "TechFlow Innovations" =>
               /\ last.resp.body[j].total_orders = 2
               /\ last.resp.body[j].delivered_orders = 0

\* A roster request was answered with a roster derived from the mock set.
C11_Witness ==
  /\ last.kind = "exhibitors" /\ last.resp.tag = "derived"
  /\ last.resp.status = 200 /\ last.orders = get_mock_orders
  /\ Len(last.resp.body) > 0

\* C12: a booth, exhibitor, roster or stats query whose derivation raised is
\* answered by an empty, zero-valued result bundle that carries an error
\* field; the exception never leaves the handler.
C12_ErrorBundles ==
  (last.kind \in {"booth", "exhibitor", "exhibitors", "stats"}
     /\ last.resp.status # 200) =>
       /\ last.resp.tag = "error_bundle"
       /\ "error" \in DOMAIN last.resp.body
       /\ last.resp.body.orders = << >>
       /\ last.resp.body.total_orders = 0
       /\ last.resp.body.delivered_orders = 0

\* C13: set_cache stores the value and the timestamp as one pair: every
\* entry of the dict, and every entry a get_from_cache call reads while sets
\* on its key run concurrently, is the value and the timestamp of one and
\* the same set_cache call.
C13_SetAtomic ==
  /\ \A k \in DOMAIN CACHE :
       /\ k \in DOMAIN written
       /\ CACHE[k].data = written[k].data
       /\ CACHE[k].timestamp = written[k].at
  /\ (obs.valid /\ obs.how = "hit") =>
       /\ obs.stored # << >>
       /\ obs.ret = <<obs.stored[1].data>>
       /\ obs.dict[obs.key].timestamp = obs.stored[1].at

\* A get_from_cache call read an entry that a set_cache stored after the
\* call's membership test, over the entry that was there at the test.
C13_Witness ==
  /\ obs.valid /\ obs.kind = "get_from_cache" /\ obs.how = "hit"
  /\ obs.call.set /\ obs.stored # << >>
  /\ obs.stored[1].at > obs.call.at

\* C14: when load_orders_from_abacus calls interleave and each fetches after
\* its miss, every one of them completes, and when a call has stored its
\* result the "all_orders" entry is exactly that result with that call's
\* timestamp, whatever the other calls stored before: the last set_cache wins.
C14_LastWriterWins ==
  /\ (last.kind = "orders" /\ last.srcCalls = 1) =>
        /\ last.resp.status = 200
        /\ AllOrdersKey \in DOMAIN CACHE
        /\ CACHE[AllOrdersKey] = [data |-> last.resp.body, timestamp |-> now]
  /\ AllOrdersKey \in DOMAIN CACHE =>
        CACHE[AllOrdersKey].data \in {UpstreamOrders, get_mock_orders}

\* Two calls missed; one fetched records and stored them, then the other,
\* whose fetch failed, stored the mock set over them, and both are done.
C14_Witness ==
  /\ last.kind = "orders" /\ ~last.force /\ last.srcCalls = 1
  /\ last.src = "failed" /\ last.over = "fresh fetched orders"
  /\ \A p \in Workers : th[p].pc = "idle"
  /\ CACHE[AllOrdersKey].data = get_mock_orders

\* C15: in every booth or exhibitor bundle returned to a caller, also one
\* served from the cache, force_refreshed is true exactly when the request
\* that receives it had force_refresh=true.
C15_ForceRefreshedField ==
  (last.kind \in {"booth", "exhibitor"} /\ last.resp.status = 200) =>
     last.resp.body.force_refreshed = last.force

\* C16: the cache starts empty; a step either is a clear_cache, which leaves
\* it empty, or removes no key, adds at most one and changes the entry of at
\* most one; and the health endpoint's cache_size counts every stored key,
\* stale ones too.
C16_KeysNeverShrink ==
  /\ CACHE = EmptyDict
  /\ [][ \/ clears' = clears + 1 /\ CACHE' = EmptyDict
         \/ /\ DOMAIN CACHE \subseteq DOMAIN CACHE'
            /\ Cardinality({k \in DOMAIN CACHE' :
                  k \notin DOMAIN CACHE \/ CACHE'[k] # CACHE[k]}) <= 1 ]_vars
  /\ [](last.kind = "health" =>
          last.resp.body.cache_size = Cardinality(DOMAIN CACHE))

\* The health endpoint counted an entry that is stale.
C16_Witness ==
  /\ last.kind = "health" /\ last.resp.body.cache_size >= 1
  /\ \E k \in DOMAIN CACHE : now - CACHE[k].timestamp >= 120

\* C17: the step in which a load_orders_from_abacus call comes back from a
\* Record Source call that failed or gave zero records leaves "all_orders"
\* holding the mock set with the timestamp of that moment, whatever it held
\* before.
C17_FallbackOverwrites ==
  [][\A p \in Workers :
       (th[p].pc = "fetch" /\ th'[p].pc # "fetch") =>
          LET t == IF th'[p].pc = "idle" THEN last' ELSE th'[p]
          IN t.src = "failed" =>
               /\ t.srcCalls = 1
               /\ AllOrdersKey \in DOMAIN CACHE'
               /\ CACHE'[AllOrdersKey] =
                    [data |-> get_mock_orders, timestamp |-> now']]_vars

\* A forced request for the order list whose fetch failed stored the mock
\* set over a fresh entry of fetched orders.
C17_Witness ==
  /\ last.kind = "orders" /\ last.force /\ last.src = "failed"
  /\ last.over = "fresh fetched orders"
  /\ CACHE[AllOrdersKey] = [data |-> get_mock_orders, timestamp |-> now]
  /\ last.resp.body = get_mock_orders

\* C18: every request that a thread serves is eventually responded to, given
\* that its Record Source call returns or raises: the thread always has a
\* step to take, whatever the other threads and the cache are doing, and no
\* request calls the Record Source more than once.
C18_RequestsComplete ==
  /\ \A p \in Workers : (th[p].pc # "idle") ~> (th[p].pc = "idle")
  /\ [](\A p \in Workers : th[p].pc # "idle" => ENABLED Step(p))
  /\ [](\A p \in Workers : th[p].srcCalls <= 1)
  /\ [](last.srcCalls <= 1 /\ (last.pc = "done" => last.resp.tag # "none"))

\* A request whose one Record Source call failed was responded to.
C18_Witness ==
  /\ last.pc = "done" /\ last.kind \in {"orders", "stats", "booth", "exhibitor", "exhibitors"}
  /\ last.src = "failed" /\ last.srcCalls = 1
  /\ last.resp.status = 200

\* C19: whatever is stored under "all_orders" is a non-empty order sequence:
\* the non-empty result of a Record Source call or the 4-order mock set.
C19_AllOrdersNonEmpty ==
  AllOrdersKey \in DOMAIN CACHE =>
     /\ Len(CACHE[AllOrdersKey].data) > 0
     /\ \/ CACHE[AllOrdersKey].data = get_mock_orders
        \/ \E out \in SourceOutcomes :
              out.ok /\ Len(out.data) > 0 /\ CACHE[AllOrdersKey].data = out.data
     /\ (obs.valid /\ obs.key = AllOrdersKey /\ obs.how = "hit") =>
           Served(obs.by).load = "returned"

\* The Record Source answered a call with zero records or failed, and the
\* entry stored for it is the mock set, which the next lookup takes as a hit.
C19_Witness ==
  /\ obs.valid /\ obs.key = AllOrdersKey /\ obs.how = "hit"
  /\ obs.ret = <<get_mock_orders>> /\ failAt # << >>
  /\ Len(CACHE[AllOrdersKey].data) = 4

\* C20: a non-forced booth, exhibitor or roster query whose lookup finds a
\* fresh entry under its own key responds in that step with the stored
\* bundle, unchanged, having neither called the Record Source nor entered
\* load_orders_from_abacus, and leaves the cache as it is; and the lookup
\* finds the entry as long as the entry's own age is below 120 seconds,
\* whatever "all_orders" holds by then.
C20_DerivedServedUntilOwnTTL ==
  (obs.valid /\ obs.kind \in {"booth", "exhibitor", "exhibitors"}
     /\ obs.key # AllOrdersKey) =>
       /\ (obs.key \in DOMAIN obs.dict
             /\ obs.at - obs.dict[obs.key].timestamp < 120) => obs.how = "hit"
       /\ obs.how = "hit" =>
            /\ last.pc = "done" /\ ~last.force
            /\ last.resp = [status |-> 200, tag |-> "cached",
                             body |-> obs.dict[obs.key].data]
            /\ last.srcCalls = 0 /\ last.load = "none"
            /\ CACHE = obs.dict

\* A booth query was served its bundle of mock orders from the cache after
\* "all_orders" had been rewritten with fetched orders.
C20_Witness ==
  /\ obs.valid /\ obs.kind = "booth" /\ obs.how = "hit"
  /\ last.resp.tag = "cached"
  /\ last.resp.body.orders = BoothOrders(get_mock_orders, "A-245")
  /\ AllOrdersKey \in DOMAIN CACHE
  /\ CACHE[AllOrdersKey].data = UpstreamOrders
  /\ CACHE[AllOrdersKey].timestamp >= CACHE[obs.key].timestamp

=============================================================================
